---- MODULE Spec2Model ----
(***************************************************************************)
(* Amazon-Deals-Bot: the request throttler of AmazonDealFinder             *)
(* (amazon_deal_finder.py), the keyword sweep of fetch_daily_deals         *)
(* (deal_fetcher.py), the discount evaluator and the deal extractors.      *)
(*                                                                         *)
(* Time is an integer number of seconds.                                   *)
(***************************************************************************)
EXTENDS Integers, Sequences, FiniteSets, TLC

VARIABLES
    now,                    \* time.time()
    last_request_time,      \* AmazonDealFinder.last_request_time
    min_request_interval,   \* AmazonDealFinder.min_request_interval
    retries,                \* local `retries` of _throttled_request
    pc,                     \* position of the thread: "ready" (no call in
                            \* progress), "loop" (while header, line 61),
                            \* "inflight" (func running, line 64)
    finder,                 \* number of AmazonDealFinder objects built so far
    overridden,             \* deal_fetcher.py:42 has run on this finder
    used,                   \* this finder has run a _throttled_request
    cooled,                 \* the caller has idled since the last call ended
    kw,                     \* fetch_daily_deals: index of the keyword at hand
                            \* (0: the thread is not in the fetch sweep)
    lastErr,                \* str(e) of the last completed attempt, or "ok"
    outcome,                \* how the last _throttled_request ended
    dispatches,             \* func() invocations of the current call
    sleeps,                 \* backoff time.sleep arguments of the current call
    hT,                     \* min_request_interval when the current call began
    hGap,                   \* seconds between the two latest dispatches of
                            \* this finder (-1: fewer than two)
    hCur,                   \* time of the latest dispatch (-1: none)
    hFirst,                 \* the latest dispatch was the first of its call
    hMin,                   \* min_request_interval at the latest dispatch
    hPeak,                  \* highest min_request_interval an escalation
                            \* (line 76) has set in this process, 0: none
    cur,                    \* calculate_discount: argument current_price
    orig,                   \* calculate_discount: argument original_price
    disc,                   \* calculate_discount: the value returned
    evaluated,              \* calculate_discount has returned
    extractor,              \* which item loop runs: "finder" (amazon_deal_finder.py
                            \* 218-269), "fetcher" (deal_fetcher.py 91-140), "none"
    items,                  \* response.items not yet visited by the item loop
    deals,                  \* the list `deals` of the item loop
    minDisc,                \* min_discount of the item loop
    batch,                  \* response.items of the response at hand
    sweeper,                \* which sweep runs: "finder" (find_best_deals),
                            \* "fetcher" (fetch_daily_deals), "none"
    pos,                    \* sweep: index of the keyword at hand (0: the
                            \* sweep has not begun)
    searched,               \* sweep: the keywords searched so far, in order
    failed,                 \* sweep: the keywords whose search raised
    num_deals,              \* find_best_deals: argument num_deals
    result,                 \* what the sweep returned
    env,                    \* the required variables os.getenv finds set
    store,                  \* the rows of table `deals`, in insertion order
    dbUp,                   \* the database answers requests (FALSE: every
                            \* request raises)
    saveArg,                \* the argument of the last save_deal: <<>> or
                            \* <<deal>>
    saveRet,                \* what the last save_deal returned
    postPc,                 \* position in bluesky_post_from_database
    selected,               \* its local `deal`: <<>> or <<row>>
    posts,                  \* asins of the posts Bluesky accepted, in order
    postRet,                \* what bluesky_post_from_database returned
                            \* ("none": a call of the scheduled loop has not
                            \* returned yet)
    sched,                  \* main in scheduled mode: "off" (another mode),
                            \* "start", "due" (line 137 or 145 is next),
                            \* "cycle" (in bluesky_post_from_database),
                            \* "ended"
    attempts,               \* calls of bluesky_post_from_database made by main
    hSleep                  \* argument of the latest time.sleep of main's
                            \* loop (-1: none yet)

finderVars == <<last_request_time, min_request_interval>>
callVars == <<retries, lastErr, outcome, dispatches, sleeps, hT>>
histVars == <<hGap, hCur, hFirst, hMin>>

evalVars == <<cur, orig, disc, evaluated>>
itemVars == <<extractor, items, deals, minDisc, batch>>
sweepVars == <<sweeper, pos, searched, failed, num_deals, result, env>>
storeVars == <<store, dbUp, saveArg, saveRet, postPc, selected, posts, postRet>>
schedVars == <<sched, attempts, hSleep>>
otherVars == <<sweepVars, storeVars, schedVars>>
throttleVars == <<now, last_request_time, min_request_interval, retries, pc,
                  finder, overridden, used, cooled, kw, lastErr, outcome,
                  dispatches, sleeps, hT, hGap, hCur, hFirst, hMin, hPeak>>

vars == <<now, last_request_time, min_request_interval, retries, pc, finder,
          overridden, used, cooled, kw, lastErr, outcome, dispatches, sleeps,
          hT, hGap, hCur, hFirst, hMin, hPeak, cur, orig, disc, evaluated,
          extractor, items, deals, minDisc, batch, sweeper, pos, searched,
          failed, num_deals, result, env, store, dbUp, saveArg, saveRet, postPc, selected,
          posts, postRet, sched, attempts, hSleep>>

----------------------------------------------------------------------------
(* Bounds of the model *)

Epoch == 1000          \* time.time() when the process starts
Horizon == 600         \* seconds of process lifetime explored by Spec
MaxFinders == 2        \* AmazonDealFinder objects built in one process
CallTime == 3          \* seconds a slow search_items call takes
IdleTime == 12         \* seconds the caller spends between two calls

Durations == {0, CallTime}

(* Program constants *)

InitialInterval == 10      \* amazon_deal_finder.py:20
max_retries == 3           \* amazon_deal_finder.py:21
FetcherInterval == 15      \* deal_fetcher.py:42
BackoffBase == 30          \* amazon_deal_finder.py:73
IntervalStep == 5          \* amazon_deal_finder.py:76
NKeywords == 10            \* deal_fetcher.py:47-58
NormalCooldown == 45       \* deal_fetcher.py:152
ErrorCooldown == 180       \* deal_fetcher.py:158

(* str(e) of the exceptions search_items can raise *)
Errors == {"TooManyRequests", "Too Many Requests", "Timeout"}
Results == {"ok"} \cup Errors

Max(a, b) == IF a >= b THEN a ELSE b

----------------------------------------------------------------------------
(* _throttled_request, amazon_deal_finder.py:47-78 *)

RECURSIVE Pow2(_)
Pow2(n) == IF n = 0 THEN 1 ELSE 2 * Pow2(n - 1)

\* the pacing wait tests the initial interval instead of the current one
SleepTimeInitial(t, last, interval) ==
    IF t - last < InitialInterval THEN interval - (t - last) ELSE 0

\* lines 51-57: the argument of the pacing time.sleep, 0 when none is made
SleepTime(t, last, interval) ==
    IF t - last < interval THEN interval - (t - last) ELSE 0

\* every exception is taken for a rate-limit error
IsRateLimitAny(e) == e \in Errors

\* line 66
IsRateLimit(e) == e \in {"TooManyRequests", "Too Many Requests"}

\* 2 * retries instead of 2 ** retries
BackoffWaitLinear(r) == BackoffBase * 2 * r

\* line 73
BackoffWait(r) == BackoffBase * Pow2(r)

\* the interval decays instead of growing
EscalateDown(interval) == interval - IntervalStep

\* line 76
Escalate(interval) == interval + IntervalStep

\* the retry count is never found exhausted
ExhaustedNever(r) == FALSE

\* line 68
Exhausted(r) == r > max_retries

\* the retry count of the call before is kept
EnterCallKeepingRetries ==
    /\ pc = "ready"
    /\ now' = now + SleepTime(now, last_request_time, min_request_interval)
    /\ retries' = retries
    /\ pc' = "loop"
    /\ used' = TRUE
    /\ cooled' = FALSE
    /\ hT' = min_request_interval
    /\ dispatches' = 0
    /\ sleeps' = <<>>
    /\ outcome' = "running"
    /\ lastErr' = "none"
    /\ UNCHANGED <<finderVars, finder, overridden, kw, histVars, hPeak>>
    /\ UNCHANGED <<evalVars, itemVars, otherVars>>

\* lines 50-60: the pacing wait and retries = 0
EnterCall ==
    /\ pc = "ready"
    /\ now' = now + SleepTime(now, last_request_time, min_request_interval)
    /\ retries' = 0
    /\ pc' = "loop"
    /\ used' = TRUE
    /\ cooled' = FALSE
    /\ hT' = min_request_interval
    /\ dispatches' = 0
    /\ sleeps' = <<>>
    /\ outcome' = "running"
    /\ lastErr' = "none"
    /\ UNCHANGED <<finderVars, finder, overridden, kw, histVars, hPeak>>
    /\ UNCHANGED <<evalVars, itemVars, otherVars>>

\* lines 61-64: the loop test, last_request_time = time.time(), func() starts
Dispatch ==
    /\ pc = "loop"
    /\ retries <= max_retries
    /\ last_request_time' = now
    /\ pc' = "inflight"
    /\ dispatches' = dispatches + 1
    /\ lastErr' = "none"
    /\ hGap' = IF hCur = -1 THEN -1 ELSE now - hCur
    /\ hCur' = now
    /\ hFirst' = (dispatches = 0)
    /\ hMin' = min_request_interval
    /\ UNCHANGED <<now, min_request_interval, retries, finder, overridden, used,
                   cooled, kw, outcome, sleeps, hT, hPeak>>
    /\ UNCHANGED <<evalVars, itemVars, otherVars>>

\* lines 64-78: func() returns or raises after d seconds with result r
CompleteCall(d, r) ==
    /\ pc = "inflight"
    /\ lastErr' = r
    /\ IF r = "ok"
       THEN \* line 64: return
            /\ now' = now + d
            /\ pc' = "ready"
            /\ outcome' = "SUCCESS"
            /\ UNCHANGED <<retries, min_request_interval, sleeps, hPeak>>
       ELSE IF IsRateLimit(r)
       THEN IF Exhausted(retries + 1)
            THEN \* lines 67-70: raise
                 /\ now' = now + d
                 /\ retries' = retries + 1
                 /\ pc' = "ready"
                 /\ outcome' = "RateLimitExceeded"
                 /\ UNCHANGED <<min_request_interval, sleeps, hPeak>>
            ELSE \* lines 67, 73-76: back off, raise the interval, loop
                 /\ now' = now + d + BackoffWait(retries + 1)
                 /\ retries' = retries + 1
                 /\ sleeps' = Append(sleeps, BackoffWait(retries + 1))
                 /\ min_request_interval' = Escalate(min_request_interval)
                 /\ hPeak' = Max(hPeak, min_request_interval')
                 /\ pc' = "loop"
                 /\ UNCHANGED outcome
       ELSE \* lines 77-78: raise
            /\ now' = now + d
            /\ pc' = "ready"
            /\ outcome' = "UpstreamError"
            /\ UNCHANGED <<retries, min_request_interval, sleeps, hPeak>>
    /\ UNCHANGED <<last_request_time, finder, overridden, used, cooled, kw,
                   dispatches, hT, histVars>>
    /\ UNCHANGED <<evalVars, itemVars, otherVars>>

\* calculate_discount is not running, no item loop is running
EvaluatorIdle == cur = [nan |-> FALSE, n |-> 0] /\ orig = [nan |-> FALSE, n |-> 0]
                 /\ disc = 0 /\ evaluated = FALSE
ExtractorIdle == extractor = "none" /\ items = <<>> /\ deals = <<>> /\ minDisc = 0
                 /\ batch = <<>>

\* the variables AmazonDealFinder._setup_client requires, line 26
Credentials == {"AMAZON_ACCESS_KEY", "AMAZON_SECRET_KEY", "ASSOCIATE_TAG", "REGION"}

\* no variable counts as missing
MissingVarsNone(e) == {}

\* amazon_deal_finder.py:26-27
MissingVars(e) == Credentials \ e

\* what a sweep returned: ret is "none" before it has, "list" with the list
\* find_best_deals returns, "True" or "False" of fetch_daily_deals, "raised"
NoResult == [ret |-> "none", deals |-> <<>>]

\* no sweep is running and every required variable is set
SweepIdle == sweeper = "none" /\ pos = 0 /\ searched = <<>> /\ failed = {}
             /\ num_deals = 0 /\ result = NoResult /\ env = Credentials

\* main does not run in scheduled mode
SchedIdle == sched = "off" /\ attempts = 0 /\ hSleep = -1

\* the table is empty and no post is under way
StoreIdle == store = <<>> /\ dbUp = TRUE /\ saveArg = <<>> /\ saveRet = "none" /\ postPc = "idle"
             /\ selected = <<>> /\ posts = <<>> /\ postRet = "none"

----------------------------------------------------------------------------
(* A process that builds finders and calls _throttled_request at will *)

InHorizon(t) == t - Epoch <= Horizon

\* AmazonDealFinder.__init__, lines 16-21; the module-level find_best_deals
\* (line 282) builds a new finder on every call.
Construct ==
    /\ pc = "ready"
    /\ finder < MaxFinders
    /\ MissingVars(env) = {}
    /\ finder' = finder + 1
    /\ last_request_time' = 0
    /\ min_request_interval' = InitialInterval
    /\ overridden' = FALSE
    /\ used' = FALSE
    /\ cooled' = FALSE
    /\ outcome' = "none"
    /\ lastErr' = "none"
    /\ dispatches' = 0
    /\ sleeps' = <<>>
    /\ hGap' = -1
    /\ hCur' = -1
    /\ hFirst' = FALSE
    /\ hMin' = InitialInterval
    /\ hT' = InitialInterval
    /\ UNCHANGED <<now, retries, pc, kw, hPeak>>
    /\ UNCHANGED <<evalVars, itemVars, otherVars>>

\* deal_fetcher.py:42, the statement after the construction of the finder
Override ==
    /\ pc = "ready"
    /\ ~used
    /\ ~overridden
    /\ overridden' = TRUE
    /\ min_request_interval' = FetcherInterval
    /\ UNCHANGED <<now, last_request_time, retries, pc, finder, used, cooled, kw,
                   callVars, histVars, hPeak>>
    /\ UNCHANGED <<evalVars, itemVars, otherVars>>

\* the caller between two calls
Idle ==
    /\ pc = "ready"
    /\ kw = 0
    /\ used
    /\ ~cooled
    /\ InHorizon(now + IdleTime)
    /\ now' = now + IdleTime
    /\ cooled' = TRUE
    /\ UNCHANGED <<finderVars, retries, pc, finder, overridden, used, kw, lastErr,
                   outcome, dispatches, sleeps, hT, histVars, hPeak>>
    /\ UNCHANGED <<evalVars, itemVars, otherVars>>

Enter ==
    /\ kw = 0
    /\ EnterCall
    /\ InHorizon(now')

Complete(d, r) ==
    /\ CompleteCall(d, r)
    /\ InHorizon(now')

Init ==
    /\ now = Epoch
    /\ last_request_time = 0
    /\ min_request_interval = InitialInterval
    /\ retries = 0
    /\ pc = "ready"
    /\ finder = 1
    /\ overridden = FALSE
    /\ used = FALSE
    /\ cooled = FALSE
    /\ kw = 0
    /\ lastErr = "none"
    /\ outcome = "none"
    /\ dispatches = 0
    /\ sleeps = <<>>
    /\ hT = InitialInterval
    /\ hGap = -1
    /\ hCur = -1
    /\ hFirst = FALSE
    /\ hMin = InitialInterval
    /\ hPeak = 0
    /\ EvaluatorIdle
    /\ ExtractorIdle
    /\ SweepIdle
    /\ StoreIdle
    /\ SchedIdle

Next ==
    \/ Construct
    \/ Override
    \/ Idle
    \/ Enter
    \/ Dispatch
    \/ \E d \in Durations, r \in Results : Complete(d, r)

Spec == Init /\ [][Next]_vars

----------------------------------------------------------------------------
(* fetch_daily_deals, deal_fetcher.py:34-165: one sweep over the keywords *)

\* lines 41-42 have run up to the construction of the finder
InitFetch ==
    /\ now = Epoch
    /\ last_request_time = 0
    /\ min_request_interval = InitialInterval
    /\ retries = 0
    /\ pc = "ready"
    /\ finder = 1
    /\ overridden = FALSE
    /\ used = FALSE
    /\ cooled = FALSE
    /\ kw = 1
    /\ lastErr = "none"
    /\ outcome = "none"
    /\ dispatches = 0
    /\ sleeps = <<>>
    /\ hT = InitialInterval
    /\ hGap = -1
    /\ hCur = -1
    /\ hFirst = FALSE
    /\ hMin = InitialInterval
    /\ hPeak = 0
    /\ EvaluatorIdle
    /\ ExtractorIdle
    /\ SweepIdle
    /\ StoreIdle
    /\ SchedIdle

\* lines 64-81: the next keyword's search enters _throttled_request
FetchSearch ==
    /\ kw \in 1..NKeywords
    /\ overridden
    /\ outcome = "none"
    /\ EnterCall

\* a keyword whose search failed is searched again after the cooldown
FetchAfterRetrying(hasItems) ==
    /\ kw \in 1..NKeywords
    /\ pc = "ready"
    /\ outcome \in {"SUCCESS", "RateLimitExceeded", "UpstreamError"}
    /\ now' = IF outcome = "SUCCESS"
              THEN IF hasItems THEN now + NormalCooldown
                   ELSE now
              ELSE now + ErrorCooldown
    /\ cooled' = (now' # now)
    /\ kw' = IF outcome = "SUCCESS" THEN kw + 1 ELSE kw
    /\ outcome' = "none"
    /\ UNCHANGED <<finderVars, retries, pc, finder, overridden, used, lastErr,
                   dispatches, sleeps, hT, histVars, hPeak>>
    /\ UNCHANGED <<evalVars, itemVars, otherVars>>

\* lines 83-158: what the loop body does once _throttled_request has ended
FetchAfter(hasItems) ==
    /\ kw \in 1..NKeywords
    /\ pc = "ready"
    /\ outcome \in {"SUCCESS", "RateLimitExceeded", "UpstreamError"}
    /\ now' = IF outcome = "SUCCESS"
              THEN IF hasItems THEN now + NormalCooldown   \* line 152
                   ELSE now                                \* line 85: continue
              ELSE now + ErrorCooldown                     \* line 158
    /\ cooled' = (now' # now)
    /\ kw' = kw + 1
    /\ outcome' = "none"
    /\ UNCHANGED <<finderVars, retries, pc, finder, overridden, used, lastErr,
                   dispatches, sleeps, hT, histVars, hPeak>>
    /\ UNCHANGED <<evalVars, itemVars, otherVars>>

NextFetch ==
    \/ Override
    \/ FetchSearch
    \/ Dispatch
    \/ \E r \in Results : CompleteCall(CallTime, r)
    \/ \E hasItems \in BOOLEAN : FetchAfter(hasItems)

SpecFetch == InitFetch /\ [][NextFetch]_vars

----------------------------------------------------------------------------
(* Single calls: every finder of the process makes one _throttled_request. *)
(* The wrapped call returns or raises in the end, and time.sleep returns.  *)

\* the first call of a finder
FirstCall ==
    /\ ~used
    /\ EnterCall

NextCall ==
    \/ Construct
    \/ Override
    \/ FirstCall
    \/ Dispatch
    \/ \E d \in Durations, r \in Results : CompleteCall(d, r)

SpecCall ==
    /\ Init
    /\ [][NextCall]_vars
    /\ WF_vars(Dispatch)
    /\ WF_vars(\E d \in Durations, r \in Results : CompleteCall(d, r))

----------------------------------------------------------------------------
(* calculate_discount, amazon_deal_finder.py:80-88                         *)
(*                                                                         *)
(* A Decimal is [nan, n]: NaN, or the number n in a unit common to both    *)
(* arguments (cents).  The quotient is computed as decimal computes it:    *)
(* digit by digit, rounded half-even to the 28 significant digits of the   *)
(* default context.                                                        *)

Prec == 28              \* decimal.getcontext().prec
MaxCents == 40          \* prices -2 .. MaxCents are evaluated

Dec(n) == [nan |-> FALSE, n |-> n]
NaN == [nan |-> TRUE, n |-> 0]

Cents == (-2 .. MaxCents) \cup {799, 800, 999, 1000, 1001}
DecInputs == {Dec(n) : n \in Cents} \cup {NaN}

Abs(x) == IF x < 0 THEN -x ELSE x

RECURSIVE NumDigits(_)
NumDigits(n) == IF n < 10 THEN 1 ELSE 1 + NumDigits(n \div 10)

\* the digits of r / d after the point (0 <= r < d), up to k significant
\* digits, and the remainder left
RECURSIVE LongDiv(_, _, _, _, _)
LongDiv(r, d, k, started, acc) ==
    IF k = 0 \/ r = 0
    THEN [digits |-> acc, rem |-> r]
    ELSE LET q == (10 * r) \div d
             st == started \/ q > 0
         IN  LongDiv((10 * r) % d, d, IF st THEN k - 1 ELSE k, st, Append(acc, q))

\* one unit in the last place added to a digit string
RECURSIVE Incr(_)
Incr(ds) ==
    IF ds = <<>>
    THEN [digits |-> <<>>, carry |-> 1]
    ELSE LET last == ds[Len(ds)]
         IN  IF last < 9
             THEN [digits |-> [ds EXCEPT ![Len(ds)] = last + 1], carry |-> 0]
             ELSE LET up == Incr(SubSeq(ds, 1, Len(ds) - 1))
                  IN  [digits |-> Append(up.digits, 0), carry |-> up.carry]

\* Decimal.__truediv__ for n >= 0, d > 0: [int |-> integer part, frac |-> the
\* digits after the point], ROUND_HALF_EVEN at Prec significant digits
DecDivide(n, d) ==
    LET ip == n \div d
        k == IF ip = 0 THEN Prec ELSE Prec - NumDigits(ip)
        ld == LongDiv(n % d, d, k, ip > 0, <<>>)
        lastDigit == IF ld.digits = <<>> THEN ip % 10 ELSE ld.digits[Len(ld.digits)]
        up == 2 * ld.rem > d \/ (2 * ld.rem = d /\ lastDigit % 2 = 1)
        inc == Incr(ld.digits)
    IN  IF up THEN [int |-> ip + inc.carry, frac |-> inc.digits]
        ELSE [int |-> ip, frac |-> ld.digits]

Digit(ds, i) == IF i <= Len(ds) THEN ds[i] ELSE 0

\* round() in place of int()
TimesHundredRounded(q) ==
    q.int * 100 + Digit(q.frac, 1) * 10 + Digit(q.frac, 2)
        + (IF Digit(q.frac, 3) >= 5 THEN 1 ELSE 0)

\* int(q * 100) for q >= 0: the product moves the point two places (no digit
\* is lost), int() drops what is left after the point
TimesHundredInt(q) == q.int * 100 + Digit(q.frac, 1) * 10 + Digit(q.frac, 2)

\* line 85, for original_price > 0: int() truncates toward zero
Percent(c, o) ==
    LET m == TimesHundredInt(DecDivide(Abs(o - c), o))
    IN  IF o - c < 0 THEN -m ELSE m

\* the test of line 83 without its second half
CalcDiscountOriginalOnly(c, o) ==
    IF c.nan \/ o.nan THEN 0
    ELSE IF o.n <= 0 THEN 0
    ELSE Percent(c.n, o.n)

\* lines 82-88; an ordering comparison of NaN raises InvalidOperation, which
\* line 86 catches
CalcDiscount(c, o) ==
    IF c.nan \/ o.nan THEN 0
    ELSE IF o.n <= 0 \/ c.n <= 0 THEN 0
    ELSE Percent(c.n, o.n)

ThrottleIdle ==
    /\ now = Epoch
    /\ last_request_time = 0
    /\ min_request_interval = InitialInterval
    /\ retries = 0
    /\ pc = "ready"
    /\ finder = 1
    /\ overridden = FALSE
    /\ used = FALSE
    /\ cooled = FALSE
    /\ kw = 0
    /\ lastErr = "none"
    /\ outcome = "none"
    /\ dispatches = 0
    /\ sleeps = <<>>
    /\ hT = InitialInterval
    /\ hGap = -1
    /\ hCur = -1
    /\ hFirst = FALSE
    /\ hMin = InitialInterval
    /\ hPeak = 0

InitDiscount ==
    /\ ThrottleIdle
    /\ ExtractorIdle
    /\ SweepIdle
    /\ StoreIdle
    /\ SchedIdle
    /\ cur \in DecInputs
    /\ orig \in DecInputs
    /\ disc = 0
    /\ evaluated = FALSE

Calculate ==
    /\ ~evaluated
    /\ disc' = CalcDiscount(cur, orig)
    /\ evaluated' = TRUE
    /\ UNCHANGED <<cur, orig, throttleVars, itemVars, otherVars>>

NextDiscount == Calculate

SpecDiscount == InitDiscount /\ [][NextDiscount]_vars

----------------------------------------------------------------------------
(* The float arithmetic of deal_fetcher.py:103-112                         *)
(*                                                                         *)
(* Amounts are whole currency units below 2^17, which a double holds       *)
(* exactly.  A positive double is [limbs, e]: its MantBits significand     *)
(* bits as a leading 1 followed by limbs of 13 bits, most significant      *)
(* first, and the value significand * 2^(e - MantBits + 1).  Every         *)
(* operation rounds to nearest, ties to even.                              *)

MantBits == 53          \* sys.float_info.mant_dig

Limb == Pow2(13)
NLimbs == 1 + (MantBits - 1) \div 13

RECURSIVE NormDown(_, _, _)
NormDown(a, b, e) ==
    IF a >= 2 * b THEN NormDown(a, 2 * b, e + 1) ELSE [a |-> a, b |-> b, e |-> e]

RECURSIVE NormUp(_, _, _)
NormUp(a, b, e) ==
    IF a < b THEN NormUp(2 * a, b, e - 1) ELSE [a |-> a, b |-> b, e |-> e]

\* the limbs of the quotient r / b (0 <= r < b) that follow acc, up to n limbs
\* in all, and the remainder left
RECURSIVE QuotLimbs(_, _, _, _)
QuotLimbs(r, b, n, acc) ==
    IF Len(acc) = n
    THEN [limbs |-> acc, rem |-> r]
    ELSE QuotLimbs((r * Limb) % b, b, n, Append(acc, (r * Limb) \div b))

RECURSIVE IncrLimbs(_)
IncrLimbs(ls) ==
    IF Len(ls) = 1
    THEN <<ls[1] + 1>>
    ELSE IF ls[Len(ls)] < Limb - 1
         THEN [ls EXCEPT ![Len(ls)] = @ + 1]
         ELSE Append(IncrLimbs(SubSeq(ls, 1, Len(ls) - 1)), 0)

\* the significand one unit in the last place up, renormalised
RoundUp(ls, e) ==
    LET inc == IncrLimbs(ls)
    IN  IF inc[1] = 2
        THEN [limbs |-> [i \in 1..Len(ls) |-> IF i = 1 THEN 1 ELSE 0], e |-> e + 1]
        ELSE [limbs |-> inc, e |-> e]

\* float a / float b for integers a, b > 0
FloatDivide(a, b) ==
    LET nm == IF a >= b THEN NormDown(a, b, 0) ELSE NormUp(a, b, 0)
        qb == QuotLimbs(nm.a - nm.b, nm.b, NLimbs, <<1>>)
        up == \/ 2 * qb.rem > nm.b
              \/ 2 * qb.rem = nm.b /\ qb.limbs[NLimbs] % 2 = 1
    IN  IF up THEN RoundUp(qb.limbs, nm.e) ELSE [limbs |-> qb.limbs, e |-> nm.e]

\* ls * m; acc holds the low limbs already multiplied, the leading limb of the
\* result holds what is left
RECURSIVE MulLimbs(_, _, _, _)
MulLimbs(ls, m, carry, acc) ==
    IF Len(acc) = Len(ls) - 1
    THEN <<ls[1] * m + carry>> \o acc
    ELSE LET t == ls[Len(ls) - Len(acc)] * m + carry
         IN  MulLimbs(ls, m, t \div Limb, <<t % Limb>> \o acc)

\* ls with its s low bits dropped; acc holds the high limbs already shifted
RECURSIVE ShiftRight(_, _, _, _)
ShiftRight(ls, s, rem, acc) ==
    IF Len(acc) = Len(ls)
    THEN [limbs |-> acc, rem |-> rem]
    ELSE LET t == rem * Limb + ls[Len(acc) + 1]
         IN  ShiftRight(ls, s, t % Pow2(s), Append(acc, t \div Pow2(s)))

\* float x * 100
FloatTimesHundred(x) ==
    LET prod == MulLimbs(x.limbs, 100, 0, <<>>)
        s == IF prod[1] >= 128 THEN 7 ELSE 6
        sh == ShiftRight(prod, s, 0, <<>>)
        up == \/ sh.rem > Pow2(s - 1)
              \/ sh.rem = Pow2(s - 1) /\ sh.limbs[NLimbs] % 2 = 1
    IN  IF up THEN RoundUp(sh.limbs, x.e + s) ELSE [limbs |-> sh.limbs, e |-> x.e + s]

RECURSIVE LimbsToNat(_)
LimbsToNat(ls) ==
    IF ls = <<>> THEN 0
    ELSE Limb * LimbsToNat(SubSeq(ls, 1, Len(ls) - 1)) + ls[Len(ls)]

\* int(x) for a positive double below 2^31: the significand without its
\* MantBits - 1 - e low bits
FloatToInt(x) ==
    IF x.e < 0 THEN 0
    ELSE LET drop == MantBits - 1 - x.e
             kept == SubSeq(x.limbs, 1, NLimbs - drop \div 13)
             u == drop % 13
         IN  LimbsToNat(SubSeq(kept, 1, Len(kept) - 1)) * Pow2(13 - u)
                 + kept[Len(kept)] \div Pow2(u)

\* deal_fetcher.py:112 for original_price # 0: int() truncates toward zero
FloatPercent(c, o) ==
    IF o - c = 0 THEN 0
    ELSE LET m == FloatToInt(FloatTimesHundred(FloatDivide(Abs(o - c), Abs(o))))
         IN  IF (o - c < 0) # (o < 0) THEN -m ELSE m

----------------------------------------------------------------------------
(* The item loops: amazon_deal_finder.py:218-269, deal_fetcher.py:91-140   *)
(*                                                                         *)
(* An item is [offers, price, basis, asin, title, image]: whether          *)
(* item.offers.listings is there and not empty, the two amounts of its     *)
(* first listing, and the three optional fields.  An amount is absent (no  *)
(* attribute), null (None) or a number; an optional field is absent, null  *)
(* or a string.                                                            *)

MaxBatch == 2               \* items in one response
FetcherMinDiscount == 15    \* deal_fetcher.py:114
DefaultMinDiscount == 20    \* amazon_deal_finder.py:178

Absent == [kind |-> "absent", n |-> 0]
Null == [kind |-> "null", n |-> 0]
Num(n) == [kind |-> "num", n |-> n]

NoAttr == [kind |-> "absent", s |-> ""]
None == [kind |-> "null", s |-> ""]
Str(s) == [kind |-> "str", s |-> s]

ReferralTag == "snacks-20"  \* os.getenv('ASSOCIATE_TAG')

Amounts == {-10, 0, 71, 201}        \* listing.price.amount
BasisAmounts == {0, 100, 200}       \* listing.saving_basis.amount
AmountFields == {Absent, Null} \cup {Num(n) : n \in Amounts}
BasisFields == {Absent, Null} \cup {Num(n) : n \in BasisAmounts}

\* items that differ in their amounts, and items that differ in their
\* optional fields
Items ==
    {[offers |-> FALSE, price |-> Absent, basis |-> Absent,
      asin |-> Str("B01"), title |-> Str("Chips"), image |-> Str("img")]}
    \cup [offers : {TRUE}, price : AmountFields, basis : BasisFields,
          asin : {Str("B01")}, title : {Str("Chips")}, image : {Str("img")}]
    \cup [offers : {TRUE}, price : {Num(71)}, basis : {Num(100)},
          asin : {NoAttr, Str("B01")},
          title : {NoAttr, Str("Chips")},
          image : {NoAttr, Str("img")}]
    \cup [offers : {TRUE}, price : {Num(71)}, basis : {Num(100)},
          asin : {None, Str("B01")},
          title : {None, Str("Chips")},
          image : {Str("img")}]
Batches == UNION {[1..k -> Items] : k \in 0..MaxBatch}
MinDiscounts == {0, DefaultMinDiscount}

\* every item is taken to have a saving basis
HasSavingBasisAlways(item) == TRUE

\* amazon_deal_finder.py:234, deal_fetcher.py:106
HasSavingBasis(item) == item.basis.kind # "absent"

\* the threshold is not looked at
MeetsThresholdAlways(discount, min_discount) == TRUE

\* amazon_deal_finder.py:243, deal_fetcher.py:114
MeetsThreshold(discount, min_discount) == discount >= min_discount

\* the title without its default
TitleRaw(item) == IF item.title.kind = "absent" THEN None ELSE item.title

\* amazon_deal_finder.py:245-247
Title(item) == IF item.title.kind = "absent" THEN Str("Unknown Product") ELSE item.title

\* the asin without its default
AsinRaw(item) == IF item.asin.kind = "absent" THEN None ELSE item.asin

\* amazon_deal_finder.py:250: getattr(item, 'asin', 'unknown')
Asin(item) == IF item.asin.kind = "absent" THEN Str("unknown") ELSE item.asin

\* amazon_deal_finder.py:253-255
ImageUrl(item) == IF item.image.kind = "str" THEN item.image ELSE None

\* how an f-string renders a value
Format(v) == IF v.kind = "null" THEN "None" ELSE v.s

\* amazon_deal_finder.py:262
Url(asin) == "https://www.amazon.com/dp/" \o Format(asin) \o "?tag=" \o ReferralTag

\* amazon_deal_finder.py:257-266, deal_fetcher.py:128-137
Deal(item, c, o, discount) ==
    [asin |-> Asin(item), title |-> Title(item),
     price |-> c, original_price |-> o, discount_percent |-> discount,
     url |-> Url(Asin(item)), image_url |-> ImageUrl(item), posted |-> FALSE]

\* amazon_deal_finder.py:219-269: what one item adds to `deals`
FinderExtract(item, min_discount) ==
    IF ~item.offers THEN <<>>                       \* lines 221-222
    ELSE IF item.price.kind = "absent" THEN <<>>    \* lines 227-228
    ELSE IF item.price.kind = "null" THEN <<>>      \* line 230 raises, 267-269
    ELSE IF ~HasSavingBasis(item) THEN <<>>         \* lines 234-238
    ELSE IF item.basis.kind = "null" THEN <<>>      \* line 235 raises, 267-269
    ELSE LET discount == CalcDiscount(Dec(item.price.n), Dec(item.basis.n))
         IN  IF MeetsThreshold(discount, min_discount)      \* line 243
             THEN <<Deal(item, item.price.n, item.basis.n, discount)>>
             ELSE <<>>

\* deal_fetcher.py:92-140: what one item adds to `deals`
FetcherExtract(item) ==
    IF ~item.offers THEN <<>>                       \* lines 94-95
    ELSE IF item.price.kind = "absent" THEN <<>>    \* lines 100-101
    ELSE IF item.price.kind = "null" THEN <<>>      \* line 103 raises, 138-140
    ELSE IF ~HasSavingBasis(item) THEN <<>>         \* lines 106-107
    ELSE IF item.basis.kind = "null" THEN <<>>      \* line 109 raises, 138-140
    ELSE IF item.basis.n = 0 THEN <<>>              \* line 112 raises, 138-140
    ELSE LET discount == FloatPercent(item.price.n, item.basis.n)
         IN  IF MeetsThreshold(discount, FetcherMinDiscount) \* line 114
             THEN <<Deal(item, item.price.n, item.basis.n, discount)>>
             ELSE <<>>

\* the statements of the try block raise for this item
FinderRaises(item) ==
    /\ item.offers
    /\ item.price.kind # "absent"
    /\ \/ item.price.kind = "null"
       \/ HasSavingBasis(item) /\ item.basis.kind = "null"

FetcherRaises(item) ==
    /\ item.offers
    /\ item.price.kind # "absent"
    /\ \/ item.price.kind = "null"
       \/ HasSavingBasis(item) /\ item.basis.kind = "null"
       \/ item.price.kind = "num" /\ item.basis.kind = "num" /\ item.basis.n = 0

InitExtract ==
    /\ ThrottleIdle
    /\ EvaluatorIdle
    /\ SweepIdle
    /\ StoreIdle
    /\ SchedIdle
    /\ extractor \in {"finder", "fetcher"}
    /\ batch \in Batches
    /\ items = batch
    /\ deals = <<>>
    /\ minDisc \in (IF extractor = "finder" THEN MinDiscounts ELSE {FetcherMinDiscount})

\* an exception of one item ends the loop
FinderItemAborting ==
    /\ extractor = "finder"
    /\ items # <<>>
    /\ deals' = deals \o FinderExtract(Head(items), minDisc)
    /\ items' = IF FinderRaises(Head(items)) THEN <<>> ELSE Tail(items)
    /\ UNCHANGED <<extractor, batch, minDisc, throttleVars, evalVars, otherVars>>

\* one pass of the loop of amazon_deal_finder.py:218; the handler of lines
\* 267-269 goes on with the next item
FinderItem ==
    /\ extractor = "finder"
    /\ items # <<>>
    /\ deals' = deals \o FinderExtract(Head(items), minDisc)
    /\ items' = Tail(items)
    /\ UNCHANGED <<extractor, batch, minDisc, throttleVars, evalVars, otherVars>>

\* one pass of the loop of deal_fetcher.py:91; the handler of lines 138-140
\* goes on with the next item
FetcherItem ==
    /\ extractor = "fetcher"
    /\ items # <<>>
    /\ deals' = deals \o FetcherExtract(Head(items))
    /\ items' = Tail(items)
    /\ UNCHANGED <<extractor, batch, minDisc, throttleVars, evalVars, otherVars>>

NextExtract ==
    \/ FinderItem
    \/ FetcherItem

SpecExtract == InitExtract /\ [][NextExtract]_vars

----------------------------------------------------------------------------
(* DealsDatabase.save_deal, database_operations.py:28-63                   *)
(*                                                                         *)
(* The table is the sequence of its rows in insertion order.  A request to *)
(* the database raises when the database is down.                          *)

\* lines 50-51: the rows the select finds
Existing(st, asin) == {i \in DOMAIN st : st[i].asin = asin}

\* the existence test is skipped
SaveDealBlind(st, up, deal) ==
    IF ~up THEN [store |-> st, ret |-> "False"]
    ELSE [store |-> Append(st, [deal EXCEPT !.posted = FALSE]), ret |-> "True"]

\* save_deal(deal): the table afterwards and the value returned
SaveDeal(st, up, deal) ==
    IF ~up THEN [store |-> st, ret |-> "False"]                    \* lines 61-63
    ELSE IF Existing(st, deal.asin) # {}
         THEN [store |-> st, ret |-> "False"]                      \* lines 51-53
         ELSE [store |-> Append(st, [deal EXCEPT !.posted = FALSE]),
               ret |-> "True"]                                     \* lines 56-59

\* deal_fetcher.py:146-148: save_deal for each deal of the list
RECURSIVE SaveAll(_, _, _)
SaveAll(st, up, ds) ==
    IF ds = <<>> THEN [store |-> st, ret |-> "none"]
    ELSE LET one == SaveDeal(st, up, Head(ds))
             rest == SaveAll(one.store, up, Tail(ds))
         IN  [store |-> rest.store,
              ret |-> IF rest.ret = "none" THEN one.ret ELSE rest.ret]

----------------------------------------------------------------------------
(* The keyword sweeps: AmazonDealFinder.find_best_deals through the        *)
(* module-level function (amazon_deal_finder.py:178-283) and               *)
(* fetch_daily_deals (deal_fetcher.py:34-165).  A search is one            *)
(* _throttled_request that returns a response or raises.                   *)

NFinderKeywords == 6        \* amazon_deal_finder.py:185-192
DefaultNumDeals == 5        \* amazon_deal_finder.py:178
MaxNumDeals == 3            \* num_deals -1 .. MaxNumDeals and the default

NumDealsChoices == (-1 .. MaxNumDeals) \cup {DefaultNumDeals}

SweepItem(price, asin) ==
    [offers |-> TRUE, price |-> Num(price), basis |-> Num(100),
     asin |-> Str(asin), title |-> Str("Chips"), image |-> Str("img")]

\* discounts 5, 10, 30 and a second product with 30
SweepItems == {SweepItem(95, "B01"), SweepItem(90, "B02"),
               SweepItem(70, "B03"), SweepItem(70, "B04")}

\* what a search does: it raises, or returns these items
Responses == {[raises |-> TRUE, items |-> <<>>], [raises |-> FALSE, items |-> <<>>]}
                 \cup {[raises |-> FALSE, items |-> <<it>>] : it \in SweepItems}

Keywords(who) == IF who = "finder" THEN NFinderKeywords ELSE NKeywords

\* the item loop over a whole response
RECURSIVE ExtractAll(_, _, _)
ExtractAll(its, who, min_discount) ==
    IF its = <<>> THEN <<>>
    ELSE (IF who = "finder" THEN FinderExtract(Head(its), min_discount)
                            ELSE FetcherExtract(Head(its)))
             \o ExtractAll(Tail(its), who, min_discount)

\* a deal goes before the deals of equal discount
InsertDescUnstable(sorted, d) ==
    LET before == {i \in DOMAIN sorted :
                      sorted[i].discount_percent > d.discount_percent}
    IN  SubSeq(sorted, 1, Cardinality(before)) \o <<d>>
            \o SubSeq(sorted, Cardinality(before) + 1, Len(sorted))

\* list.sort(key=discount_percent, reverse=True) is stable: a deal goes
\* behind the deals of greater or equal discount that came before it
InsertDesc(sorted, d) ==
    LET before == {i \in DOMAIN sorted :
                      sorted[i].discount_percent >= d.discount_percent}
    IN  SubSeq(sorted, 1, Cardinality(before)) \o <<d>>
            \o SubSeq(sorted, Cardinality(before) + 1, Len(sorted))

\* amazon_deal_finder.py:276
RECURSIVE SortDesc(_, _)
SortDesc(sorted, rest) ==
    IF rest = <<>> THEN sorted
    ELSE SortDesc(InsertDesc(sorted, Head(rest)), Tail(rest))

\* amazon_deal_finder.py:277: deals[:num_deals]
Slice(ds, n) ==
    IF n >= 0 THEN SubSeq(ds, 1, IF n < Len(ds) THEN n ELSE Len(ds))
    ELSE SubSeq(ds, 1, Max(0, Len(ds) + n))

InitSweep ==
    /\ ThrottleIdle
    /\ EvaluatorIdle
    /\ StoreIdle
    /\ SchedIdle
    /\ items = <<>> /\ deals = <<>> /\ batch = <<>>
    /\ sweeper \in {"finder", "fetcher"}
    /\ extractor = sweeper
    /\ minDisc \in (IF sweeper = "finder" THEN MinDiscounts ELSE {FetcherMinDiscount})
    /\ num_deals \in (IF sweeper = "finder" THEN NumDealsChoices ELSE {0})
    /\ env \in SUBSET Credentials
    /\ pos = 0
    /\ searched = <<>>
    /\ failed = {}
    /\ result = NoResult

\* the finder is built: amazon_deal_finder.py:282 (the exception of
\* _setup_client leaves find_best_deals), deal_fetcher.py:36-44 (the handler of
\* lines 163-165 returns False)
SweepStart ==
    /\ sweeper # "none"
    /\ pos = 0
    /\ result.ret = "none"
    /\ IF MissingVars(env) # {}
       THEN /\ result' = [ret |-> IF sweeper = "finder" THEN "raised" ELSE "False",
                          deals |-> <<>>]
            /\ pos' = pos
       ELSE /\ pos' = 1
            /\ result' = result
    /\ UNCHANGED <<sweeper, searched, failed, num_deals, env, storeVars,
                   throttleVars, evalVars, itemVars, schedVars>>

\* a search raises and the handler of the loop body goes on with the next
\* keyword; here it leaves the loop
SweepKeywordStopping(resp) ==
    /\ pos \in 1..Keywords(sweeper)
    /\ result.ret = "none"
    /\ searched' = Append(searched, pos)
    /\ batch' = resp.items
    /\ IF resp.raises
       THEN /\ failed' = failed \cup {pos}
            /\ pos' = Keywords(sweeper) + 1
            /\ UNCHANGED <<deals, store, saveArg, saveRet>>
       ELSE LET new == ExtractAll(resp.items, sweeper, minDisc)
                saved == SaveAll(store, dbUp, new)
            IN  /\ failed' = failed
                /\ pos' = pos + 1
                /\ IF sweeper = "finder"
                   THEN deals' = deals \o new /\ UNCHANGED <<store, saveArg, saveRet>>
                   ELSE /\ deals' = new
                        /\ store' = saved.store
                        /\ saveArg' = IF new = <<>> THEN saveArg ELSE <<new[Len(new)]>>
                        /\ saveRet' = IF new = <<>> THEN saveRet ELSE saved.ret
    /\ UNCHANGED <<sweeper, num_deals, result, env, dbUp, postPc, selected, posts,
                   postRet, extractor, items, minDisc, throttleVars, evalVars, schedVars>>

\* one pass of the keyword loop: amazon_deal_finder.py:195-273,
\* deal_fetcher.py:63-158
SweepKeyword(resp) ==
    /\ pos \in 1..Keywords(sweeper)
    /\ result.ret = "none"
    /\ searched' = Append(searched, pos)
    /\ batch' = resp.items
    /\ pos' = pos + 1
    /\ IF resp.raises
       THEN /\ failed' = failed \cup {pos}
            /\ UNCHANGED <<deals, store, saveArg, saveRet>>
       ELSE LET new == ExtractAll(resp.items, sweeper, minDisc)
                saved == SaveAll(store, dbUp, new)
            IN  /\ failed' = failed
                /\ IF sweeper = "finder"
                   THEN deals' = deals \o new /\ UNCHANGED <<store, saveArg, saveRet>>
                   ELSE /\ deals' = new
                        /\ store' = saved.store
                        /\ saveArg' = IF new = <<>> THEN saveArg ELSE <<new[Len(new)]>>
                        /\ saveRet' = IF new = <<>> THEN saveRet ELSE saved.ret
    /\ UNCHANGED <<sweeper, num_deals, result, env, dbUp, postPc, selected, posts,
                   postRet, extractor, items, minDisc, throttleVars, evalVars, schedVars>>

\* after the loop: amazon_deal_finder.py:275-277, deal_fetcher.py:160-161
SweepEnd ==
    /\ sweeper # "none"
    /\ pos = Keywords(sweeper) + 1
    /\ result.ret = "none"
    /\ result' = IF sweeper = "finder"
                 THEN [ret |-> "list", deals |-> Slice(SortDesc(<<>>, deals), num_deals)]
                 ELSE [ret |-> "True", deals |-> <<>>]
    /\ UNCHANGED <<sweeper, pos, searched, failed, num_deals, env, storeVars,
                   throttleVars, evalVars, itemVars, schedVars>>

\* the database goes down or comes back
StoreOutage ==
    /\ dbUp' = ~dbUp
    /\ UNCHANGED <<store, saveArg, saveRet, postPc, selected, posts, postRet, sweepVars,
                   throttleVars, evalVars, itemVars, schedVars>>

NextSweep ==
    \/ SweepStart
    \/ \E resp \in Responses : SweepKeyword(resp)
    \/ SweepEnd
    \/ sweeper = "fetcher" /\ result.ret = "none" /\ StoreOutage

SpecSweep == InitSweep /\ [][NextSweep]_vars

----------------------------------------------------------------------------
(* The table and the posting cycle: DealsDatabase                          *)
(* (database_operations.py) and bluesky_post_from_database                 *)
(* (bluesky_main.py:35-77), in one thread                                  *)

MaxPosts == 3               \* posts Bluesky accepts in one exploration

StoreDeal(asin, price) ==
    [asin |-> Str(asin), title |-> Str("Chips"), price |-> price,
     original_price |-> 100, discount_percent |-> 100 - price,
     url |-> Url(Str(asin)), image_url |-> None, posted |-> FALSE]

\* two products, each at two prices
StoreDeals == {StoreDeal(a, p) : a \in {"B01", "B02"}, p \in {70, 80}}

\* database_operations.py:94-106: a row get_best_unposted_deal may return,
\* none when the request raises or no row is unposted
BestUnposted(st, up) ==
    IF ~up THEN {}
    ELSE {i \in DOMAIN st :
             /\ ~st[i].posted
             /\ \A j \in DOMAIN st :
                   ~st[j].posted => st[j].discount_percent <= st[i].discount_percent}

\* database_operations.py:78-92: the table after mark_deal_as_posted(asin)
MarkPosted(st, up, asin) ==
    IF ~up THEN st
    ELSE [i \in DOMAIN st |-> IF st[i].asin = asin
                              THEN [st[i] EXCEPT !.posted = TRUE] ELSE st[i]]

InitStore ==
    /\ ThrottleIdle
    /\ EvaluatorIdle
    /\ ExtractorIdle
    /\ SweepIdle
    /\ StoreIdle
    /\ SchedIdle

\* db.save_deal(deal)
Save(deal) ==
    /\ postPc = "idle"
    /\ LET r == SaveDeal(store, dbUp, deal)
       IN  /\ store' = r.store
           /\ saveRet' = r.ret
    /\ saveArg' = <<deal>>
    /\ UNCHANGED <<dbUp, postPc, selected, posts, postRet, sweepVars,
                   throttleVars, evalVars, itemVars, schedVars>>

\* bluesky_main.py:50-62: the client is set up and the best unposted deal is
\* looked up
PostBegin(apiOk) ==
    /\ postPc = "idle"
    /\ Len(posts) < MaxPosts
    /\ IF ~apiOk \/ BestUnposted(store, dbUp) = {}
       THEN /\ postRet' = "False"                   \* lines 54, 61
            /\ UNCHANGED <<postPc, selected>>
       ELSE \E i \in BestUnposted(store, dbUp) :
               /\ selected' = <<store[i]>>
               /\ postPc' = "posting"
               /\ postRet' = "running"
    /\ UNCHANGED <<store, dbUp, saveArg, saveRet, posts, sweepVars,
                   throttleVars, evalVars, itemVars, schedVars>>

\* the deal is marked whether Bluesky took the post or not
PostSendAlwaysMarks(ok) ==
    /\ postPc = "posting"
    /\ posts' = IF ok THEN Append(posts, selected[1].asin) ELSE posts
    /\ postPc' = "marking"
    /\ UNCHANGED <<store, dbUp, saveArg, saveRet, selected, postRet, sweepVars,
                   throttleVars, evalVars, itemVars, schedVars>>

\* bluesky_main.py:65, 70-72: post_deal_with_embed(client, deal) returns ok
PostSend(ok) ==
    /\ postPc = "posting"
    /\ IF ok
       THEN /\ posts' = Append(posts, selected[1].asin)
            /\ postPc' = "marking"
            /\ UNCHANGED <<selected, postRet>>
       ELSE /\ postRet' = "False"
            /\ postPc' = "idle"
            /\ selected' = <<>>
            /\ posts' = posts
    /\ UNCHANGED <<store, dbUp, saveArg, saveRet, sweepVars,
                   throttleVars, evalVars, itemVars, schedVars>>

\* bluesky_main.py:67-69: mark_deal_as_posted, whose result is not looked
\* at, and return True
PostMark ==
    /\ postPc = "marking"
    /\ store' = MarkPosted(store, dbUp, selected[1].asin)
    /\ postRet' = "True"
    /\ postPc' = "idle"
    /\ selected' = <<>>
    /\ UNCHANGED <<dbUp, saveArg, saveRet, posts, sweepVars,
                   throttleVars, evalVars, itemVars, schedVars>>

NextStore ==
    \/ \E deal \in StoreDeals : Save(deal)
    \/ \E apiOk \in BOOLEAN : PostBegin(apiOk)
    \/ \E ok \in BOOLEAN : PostSend(ok)
    \/ PostMark
    \/ StoreOutage

SpecStore == InitStore /\ [][NextStore]_vars

----------------------------------------------------------------------------
(* main in scheduled mode, bluesky_main.py:129-145; another process saves  *)
(* deals meanwhile                                                         *)

PostSleep == 14400          \* bluesky_main.py:144
MaxAttempts == 3            \* calls of bluesky_post_from_database explored

InitSchedule ==
    /\ ThrottleIdle
    /\ EvaluatorIdle
    /\ ExtractorIdle
    /\ SweepIdle
    /\ store = <<>> /\ dbUp = TRUE /\ saveArg = <<>> /\ saveRet = "none"
    /\ postPc = "idle" /\ selected = <<>> /\ posts = <<>> /\ postRet = "none"
    /\ sched = "start"
    /\ attempts = 0
    /\ hSleep = -1

\* lines 130-133: test_bluesky_connection() returns connOk
SchedStart(connOk) ==
    /\ sched = "start"
    /\ sched' = IF connOk THEN "due" ELSE "ended"
    /\ UNCHANGED <<attempts, hSleep, storeVars, sweepVars, throttleVars,
                   evalVars, itemVars>>

\* lines 137 and 145: bluesky_post_from_database(db) is called
SchedCall ==
    /\ sched = "due"
    /\ attempts < MaxAttempts
    /\ sched' = "cycle"
    /\ attempts' = attempts + 1
    /\ postRet' = "none"
    /\ UNCHANGED <<hSleep, store, dbUp, saveArg, saveRet, postPc, selected, posts,
                   sweepVars, throttleVars, evalVars, itemVars>>

\* lines 140-143: the call has returned, its value is dropped, and the loop
\* sleeps
SchedSleep ==
    /\ sched = "cycle"
    /\ postPc = "idle"
    /\ postRet \in {"True", "False"}
    /\ now' = now + PostSleep
    /\ hSleep' = PostSleep
    /\ sched' = "due"
    /\ UNCHANGED <<attempts, storeVars, sweepVars, evalVars, itemVars,
                   last_request_time, min_request_interval, retries, pc, finder,
                   overridden, used, cooled, kw, lastErr, outcome, dispatches,
                   sleeps, hT, hGap, hCur, hFirst, hMin, hPeak>>

NextSchedule ==
    \/ \E connOk \in BOOLEAN : SchedStart(connOk)
    \/ SchedCall
    \/ sched = "cycle" /\ postRet = "none" /\ \E apiOk \in BOOLEAN : PostBegin(apiOk)
    \/ \E ok \in BOOLEAN : PostSend(ok)
    \/ PostMark
    \/ SchedSleep
    \/ \E deal \in StoreDeals : Save(deal)
    \/ StoreOutage

SpecSchedule == InitSchedule /\ [][NextSchedule]_vars

----------------------------------------------------------------------------
(* Properties of the throttler *)

CallEnded == pc = "ready" /\ outcome \in {"SUCCESS", "RateLimitExceeded", "UpstreamError"}

\* C1: the first dispatch of a call comes at least T seconds after the latest
\* dispatch of the call before it on the same finder, T being
\* min_request_interval when the later call began.
C1_PacedAfterPreviousCall == (hFirst /\ hGap # -1) => hGap >= hT

\* a second call that had to wait: its first dispatch comes exactly T = 20
\* seconds after the previous dispatch, the interval having been raised twice
C1_Witness == pc = "inflight" /\ hFirst /\ hGap = hT /\ hT = 20 /\ ~cooled

\* C2: a call whose every attempt hits the rate limit makes exactly 4
\* dispatches, backs off 60, 120 and 240 seconds in that order, raises
\* min_request_interval by 15 in all, and raises to the caller at the fourth
\* failure without another sleep or escalation.
C2_RateLimitLadder ==
    (CallEnded /\ (retries = dispatches \/ outcome = "RateLimitExceeded"))
        => /\ outcome = "RateLimitExceeded"
           /\ lastErr \in {"TooManyRequests", "Too Many Requests"}
           /\ dispatches = 4
           /\ sleeps = <<60, 120, 240>>
           /\ min_request_interval = hT + 15

C2_Witness == CallEnded /\ outcome = "RateLimitExceeded" /\ dispatches = 4

\* C3: any two successive dispatches of one finder, a retry after a backoff
\* included, are at least the min_request_interval in force at the later
\* dispatch apart.
C3_EveryDispatchPaced == hGap # -1 => hGap >= hMin

\* C4: no step lowers the min_request_interval of a finder.
C4_IntervalNeverLowered ==
    [][finder' = finder => min_request_interval' >= min_request_interval]_vars

\* the fetcher's override and two escalations have acted, and a call succeeded
C4_Witness ==
    CallEnded /\ overridden /\ outcome = "SUCCESS"
              /\ min_request_interval = FetcherInterval + 10

\* C5: the interval set by an escalation stays in force for every later search
\* of the process: the interval of the finder in use is never below it.
C5_EscalationOutlivesFinder == min_request_interval >= hPeak

\* C6: an attempt that fails without the rate-limit signature ends the call at
\* once: no other dispatch, no backoff sleep, min_request_interval unchanged.
C6_OtherErrorPropagates ==
    [][(pc = "inflight" /\ lastErr' = "Timeout")
          => /\ pc' = "ready"
             /\ outcome' = "UpstreamError"
             /\ min_request_interval' = min_request_interval
             /\ sleeps' = sleeps
             /\ dispatches' = dispatches
             /\ retries' = retries
             /\ now' - now \in Durations]_vars

\* a retry failed with another error after one rate-limit failure
C6_Witness ==
    CallEnded /\ outcome = "UpstreamError" /\ dispatches = 2 /\ sleeps = <<60>>

----------------------------------------------------------------------------
(* Properties of calculate_discount *)

\* C7: calculate_discount returns 0 whenever original_price <= 0 or
\* current_price <= 0.
C7_DegenerateIsZero ==
    (evaluated /\ ~cur.nan /\ ~orig.nan /\ (orig.n <= 0 \/ cur.n <= 0)) => disc = 0

\* a free item with a positive original price has been evaluated
C7_Witness == evaluated /\ cur = Dec(0) /\ orig = Dec(1000)

\* C8: for original > current > 0, calculate_discount returns the floor of
\* (original - current) * 100 / original; discount(8.00, 10.00) = 20.
C8_FloorOfPercentage ==
    /\ (evaluated /\ ~cur.nan /\ ~orig.nan /\ orig.n > cur.n /\ cur.n > 0)
          => disc = ((orig.n - cur.n) * 100) \div orig.n
    /\ (evaluated /\ cur = Dec(800) /\ orig = Dec(1000)) => disc = 20

\* 7.99 against 9.99: the quotient has no finite decimal expansion
C8_Witness == evaluated /\ cur = Dec(799) /\ orig = Dec(999) /\ disc = 20

\* C9: calculate_discount never raises and always returns an integer in 0..100,
\* also when the current price exceeds the original one.
C9_DiscountInRange == evaluated => disc \in 0..100

----------------------------------------------------------------------------
(* Properties of the item loops *)

FloorPercent(c, o) == ((o - c) * 100) \div o

\* C10: every deal record built by an item loop has discount_percent =
\* floor((original_price - current_price) / original_price * 100) when
\* original_price > 0, and 0 otherwise.
C10_DealDiscountIsFloor ==
    \A i \in DOMAIN deals :
        deals[i].discount_percent =
            IF deals[i].original_price > 0
            THEN FloorPercent(deals[i].price, deals[i].original_price)
            ELSE 0

\* the items of the batch the loop has visited
Visited == 1 .. (Len(batch) - Len(items))

\* the item has its three required fields as numbers the arithmetic accepts,
\* and its recomputed discount reaches the threshold of the loop
Qualifying(item) ==
    /\ item.offers
    /\ item.price.kind = "num"
    /\ item.basis.kind = "num"
    /\ IF extractor = "fetcher"
       THEN /\ item.basis.n # 0
            /\ FloatPercent(item.price.n, item.basis.n) >= FetcherMinDiscount
       ELSE CalcDiscount(Dec(item.price.n), Dec(item.basis.n)) >= minDisc

\* the place in `deals` of the deal of visited item i
DealIndex(i) == Cardinality({k \in 1..i : Qualifying(batch[k])})

\* C11: an item whose first listing has no savings-basis amount (the
\* attribute is missing, or it is None) adds no deal, whatever its current
\* price is.
C11_NoBasisNoDeal ==
    [][(extractor # "none" /\ items # <<>> /\ Head(items).basis.kind # "num")
          => deals' = deals]_vars

\* an item with a current price and no saving basis has been visited by the
\* finder's loop with min_discount = 0, and nothing was emitted
C11_Witness ==
    /\ extractor = "finder" /\ minDisc = 0
    /\ Len(batch) = 1 /\ items = <<>>
    /\ batch[1].offers /\ batch[1].price = Num(71) /\ batch[1].basis = Absent
    /\ deals = <<>>

\* C12: a malformed item never ends the loop: at every point `deals` holds
\* exactly the deals of the qualifying items visited so far, in batch order,
\* and every item of the batch is visited.
C12_MalformedItemsDropped ==
    /\ Len(deals) = Cardinality({i \in Visited : Qualifying(batch[i])})
    /\ \A i \in Visited :
          Qualifying(batch[i]) =>
              /\ deals[DealIndex(i)].price = batch[i].price.n
              /\ deals[DealIndex(i)].original_price = batch[i].basis.n

\* a batch whose first item raised (null price) and whose second item
\* qualifies has been processed: the second item is in `deals`
C12_Witness ==
    /\ extractor \in {"finder", "fetcher"}
    /\ Len(batch) = 2 /\ items = <<>>
    /\ batch[1].offers /\ batch[1].price = Null
    /\ Qualifying(batch[2])
    /\ Len(deals) = 1 /\ deals[1].price = batch[2].price.n

\* C13: every deal of the output has discount_percent >= the threshold of
\* the loop (the caller's min_discount in the finder).
C13_DealsMeetThreshold ==
    \A i \in DOMAIN deals : deals[i].discount_percent >= minDisc

\* the finder's loop with min_discount = 20 has dropped an item the upstream
\* returned with a discount of 0 and kept one with a discount of 29
C13_Witness ==
    /\ extractor = "finder" /\ minDisc = DefaultMinDiscount
    /\ Len(batch) = 2 /\ items = <<>>
    /\ batch[1].offers /\ batch[1].price = Num(201) /\ batch[1].basis = Num(200)
    /\ Len(deals) = 1 /\ deals[1].discount_percent = 29

\* C14: a qualifying item is emitted whatever optional fields it lacks: an
\* absent display title gives "Unknown Product", an absent asin gives
\* "unknown", an absent image path gives a null image_url, and url is
\* https://www.amazon.com/dp/{asin}?tag={ASSOCIATE_TAG} with the asin of the
\* deal.
C14_OptionalDefaults ==
    \A i \in Visited :
        Qualifying(batch[i]) =>
            LET d == deals[DealIndex(i)]
            IN  /\ DealIndex(i) \in DOMAIN deals
                /\ batch[i].title.kind = "absent" => d.title = Str("Unknown Product")
                /\ batch[i].title.kind = "str" => d.title = batch[i].title
                /\ batch[i].asin.kind = "absent" => d.asin = Str("unknown")
                /\ batch[i].asin.kind = "str" => d.asin = batch[i].asin
                /\ batch[i].image.kind = "absent" => d.image_url = None
                /\ batch[i].image.kind = "str" => d.image_url = batch[i].image
                /\ d.asin.kind = "str" =>
                      d.url = "https://www.amazon.com/dp/" \o d.asin.s
                                  \o "?tag=" \o ReferralTag

\* an item without title, asin and image has been emitted
C14_Witness ==
    /\ Len(batch) = 1 /\ items = <<>>
    /\ batch[1].title = NoAttr /\ batch[1].asin = NoAttr /\ batch[1].image = NoAttr
    /\ Len(deals) = 1
    /\ deals[1].url = "https://www.amazon.com/dp/unknown?tag=snacks-20"

----------------------------------------------------------------------------
(* Properties of the sweeps *)

Discounts(ds) == [i \in DOMAIN ds |-> ds[i].discount_percent]

\* the deals of ds by falling discount, those of one discount in the order
\* they have in ds
RECURSIVE ByFallingDiscount(_, _)
ByFallingDiscount(ds, D) ==
    IF D = {} THEN <<>>
    ELSE LET m == CHOOSE x \in D : \A y \in D : y <= x
             Is(d) == d.discount_percent = m
         IN  SelectSeq(ds, Is) \o ByFallingDiscount(ds, D \ {m})

\* C15: find_best_deals returns the accumulated deals by falling
\* discount_percent, equal discounts in discovery order, cut to the first
\* num_deals: min(num_deals, number of deals) elements for num_deals >= 0;
\* discounts [10, 30, 30, 5] with num_deals = 3 give [30 (first found),
\* 30 (second found), 10].
C15_RankedTopN ==
    (result.ret = "list" /\ num_deals >= 0) =>
        LET ranked == ByFallingDiscount(deals, {deals[i].discount_percent : i \in DOMAIN deals})
            n == IF num_deals < Len(deals) THEN num_deals ELSE Len(deals)
        IN  /\ Len(result.deals) = n
            /\ result.deals = SubSeq(ranked, 1, n)
            /\ (Discounts(deals) = <<10, 30, 30, 5>> /\ num_deals = 3)
                  => result.deals = <<deals[2], deals[3], deals[1]>>

\* the sweep found discounts 10, 30, 30, 5, the two deals of 30 being
\* different products, and returned its top 3
C15_Witness ==
    /\ result.ret = "list" /\ num_deals = 3
    /\ Discounts(deals) = <<10, 30, 30, 5>>
    /\ deals[2].asin # deals[3].asin
    /\ result.deals = <<deals[2], deals[3], deals[1]>>

\* C16: a keyword whose search raises does not end the sweep: a sweep that
\* returns has searched every keyword of its list in order, and a qualifying
\* item found after a failed keyword is added to the deals of the finder's
\* sweep, or saved by the fetcher's sweep when the database answers.
C16_FailedKeywordDoesNotStop ==
    /\ [](result.ret \in {"list", "True"}
             => searched = [i \in 1..Keywords(sweeper) |-> i])
    /\ [][(/\ failed # {}
           /\ pos' = pos + 1
           /\ pos \notin failed'
           /\ batch' # <<>>
           /\ Qualifying(batch'[1]))
          => IF sweeper = "finder"
             THEN /\ Len(deals') = Len(deals) + 1
                  /\ deals'[Len(deals')].asin = batch'[1].asin
             ELSE dbUp => \E i \in DOMAIN store' : store'[i].asin = batch'[1].asin]_vars

\* the first keyword of the finder's sweep raised, the sweep went through
\* the other five and returned a deal found under one of them
C16_Witness ==
    /\ sweeper = "finder" /\ result.ret = "list"
    /\ 1 \in failed
    /\ Len(searched) = NFinderKeywords
    /\ Len(deals) = 1 /\ result.deals = deals

\* C17: in the fetch sweep every keyword is followed by a cooldown before
\* the next one: 180 seconds when its search failed, 45 seconds when it
\* succeeded, with or without items in the response.
C17_CooldownAfterEveryKeyword ==
    [][kw' = kw + 1
          => now' - now = IF outcome = "SUCCESS" THEN NormalCooldown
                                                 ELSE ErrorCooldown]_vars

\* C18: when a required credential is missing the construction of the finder
\* fails, no keyword is ever searched, and fetch_daily_deals returns False
\* (the module-level find_best_deals lets the error out).
C18_NoSearchWithoutCredentials ==
    env # Credentials =>
        /\ pos = 0
        /\ searched = <<>>
        /\ result.ret \in {"none", IF sweeper = "fetcher" THEN "False" ELSE "raised"}

\* fetch_daily_deals has returned False without a search, ASSOCIATE_TAG being
\* unset
C18_Witness ==
    /\ sweeper = "fetcher"
    /\ env = Credentials \ {"ASSOCIATE_TAG"}
    /\ result.ret = "False"
    /\ searched = <<>>

----------------------------------------------------------------------------
(* Properties of the table and of the posting cycle *)

\* a step that is a call of save_deal
SaveStep ==
    /\ saveArg' # <<>>
    /\ saveArg' # saveArg \/ saveRet' # saveRet
    /\ UNCHANGED <<dbUp, postPc, selected, posts, postRet>>

UniqueAsin == \A i, j \in DOMAIN store : store[i].asin = store[j].asin => i = j

\* C19 as stated: the table never holds two rows of one asin; a save of a
\* stored asin returns False and changes nothing; a save of a new asin
\* returns True.
C19_SaveIdempotent ==
    /\ []UniqueAsin
    /\ [][SaveStep =>
             IF Existing(store, saveArg'[1].asin) # {}
             THEN saveRet' = "False" /\ store' = store
             ELSE saveRet' = "True"]_vars

\* C19, amended: a save of a new asin returns True and adds its row,
\* unposted, when the database answers; when a request to the database
\* raises, save_deal returns False and the table is unchanged.
C19_SaveIdempotentWhenStoreAnswers ==
    /\ []UniqueAsin
    /\ [][SaveStep =>
             IF Existing(store, saveArg'[1].asin) # {} \/ ~dbUp
             THEN saveRet' = "False" /\ store' = store
             ELSE /\ saveRet' = "True"
                  /\ store' = Append(store, saveArg'[1])]_vars

\* B01 was saved and posted; a second save of B01 at another price returned
\* False and the row still says posted at the first price
C19_Witness ==
    /\ Len(store) = 1
    /\ store[1].asin = Str("B01") /\ store[1].posted /\ store[1].price = 70
    /\ saveArg = <<StoreDeal("B01", 80)>>
    /\ saveRet = "False"
    /\ dbUp

\* the step returns from bluesky_post_from_database
PostReturns == postPc' = "idle" /\ (postPc # "idle" \/ postRet' # postRet)

\* C20: a row is marked posted only after Bluesky accepted the post of that
\* very deal, in the cycle that posted it; no row is marked when the post
\* fails or no unposted deal is found; the function returns True exactly when
\* the post succeeded.
C20_MarkOnlyAfterPost ==
    /\ [](\A i \in DOMAIN store :
             store[i].posted => \E k \in DOMAIN posts : posts[k] = store[i].asin)
    /\ [](postPc = "marking" => posts # <<>> /\ posts[Len(posts)] = selected[1].asin)
    /\ [][(\E i \in DOMAIN store : store'[i].posted # store[i].posted)
             => /\ postPc = "marking"
                /\ \A i \in DOMAIN store :
                      store'[i].posted # store[i].posted
                          => store[i].asin = selected[1].asin]_vars
    /\ [][PostReturns => (postRet' = "True" <=> postPc = "marking")]_vars

\* a cycle has posted B01 and marked its row
C20_Witness ==
    /\ postPc = "idle" /\ postRet = "True"
    /\ posts = <<Str("B01")>>
    /\ \E i \in DOMAIN store : store[i].asin = Str("B01") /\ store[i].posted

----------------------------------------------------------------------------
(* Further properties of the throttler *)

Terminal == {"SUCCESS", "RateLimitExceeded", "UpstreamError"}

\* C21: every _throttled_request ends in exactly one of SUCCESS,
\* RateLimitExceeded and UpstreamError after at most max_retries + 1 = 4
\* dispatches, whatever the wrapped call does; the while loop is never left
\* through its test, which would return None.
C21_CallTerminates ==
    /\ [](dispatches <= max_retries + 1)
    /\ [](pc = "loop" => retries <= max_retries)
    /\ [](pc = "ready" /\ used => outcome \in Terminal)
    /\ [](pc = "ready" /\ used /\ outcome = "SUCCESS" => lastErr = "ok")
    /\ (pc # "ready") ~> (pc = "ready" /\ outcome \in Terminal)

\* a call succeeded at its fourth dispatch
C21_Witness == CallEnded /\ outcome = "SUCCESS" /\ dispatches = max_retries + 1

\* C22: `retries` is 0 again at the start of every call: whatever earlier
\* calls met, a call has its full ladder of three retries with backoffs of
\* 60, 120 and 240 seconds, also right after a call that exhausted its
\* retries; only min_request_interval is carried from call to call.
C22_RetriesResetPerCall ==
    /\ [][pc = "ready" /\ pc' = "loop"
             => retries' = 0 /\ min_request_interval' = min_request_interval]_vars
    /\ [](pc = "loop" /\ dispatches = 0 => retries = 0)
    /\ [](\A i \in DOMAIN sleeps : sleeps[i] = BackoffBase * Pow2(i))
    /\ [](CallEnded /\ outcome = "RateLimitExceeded"
             => sleeps = <<60, 120, 240>> /\ dispatches = max_retries + 1)

\* the second keyword's call exhausted its retries right after the first
\* keyword's call had: both went through 60, 120, 240, and the interval has
\* grown by 5 six times
C22_Witness ==
    /\ kw = 2 /\ CallEnded /\ outcome = "RateLimitExceeded"
    /\ sleeps = <<60, 120, 240>>
    /\ min_request_interval = FetcherInterval + 6 * IntervalStep

\* C23: in a sweep every keyword gets exactly one _throttled_request, in
\* list order, one call at a time, whatever earlier keywords did: a call
\* begins only for a keyword not searched yet, the sweep moves on by one
\* keyword and only when the call of the keyword at hand has ended, and a
\* keyword has at most 4 dispatches, all of them the throttler's.
C23_OneCallPerKeyword ==
    /\ [][pc = "ready" /\ pc' = "loop" => kw \in 1..NKeywords /\ outcome = "none"]_vars
    /\ [][kw' # kw => kw' = kw + 1 /\ pc = "ready" /\ outcome \in Terminal]_vars
    /\ [][outcome # "none" /\ outcome' = "none" => kw' = kw + 1]_vars
    /\ [](dispatches <= max_retries + 1)

\* the sweep is over; the search of its last keyword failed with another
\* error at its first dispatch, after rate-limit failures of earlier keywords
C23_Witness ==
    /\ kw = NKeywords + 1 /\ pc = "ready"
    /\ lastErr = "Timeout" /\ dispatches = 1
    /\ min_request_interval > FetcherInterval

----------------------------------------------------------------------------
(* Properties of the scheduled mode and of repeated posting cycles *)

\* C24: in scheduled mode the first post attempt is made at once and every
\* sleep between two attempts is 6 * 3600 seconds.
C24_SixHoursBetweenPosts ==
    /\ attempts = 1 => hSleep = -1
    /\ hSleep # -1 => hSleep = 6 * 3600

\* C25: over any sequence of posting cycles no asin is posted twice, also
\* when mark_deal_as_posted fails after the post.
C25_PostedAtMostOnce ==
    \A i, j \in DOMAIN posts : posts[i] = posts[j] => i = j

\* C26: for every item the loop of fetch_daily_deals keeps or drops the item
\* as the loop of find_best_deals does with the same threshold, and records
\* the same discount_percent: a finished fetcher loop has built the deals
\* the finder's extraction builds from the same batch.
C26_FetcherAgreesWithFinder ==
    extractor = "fetcher" /\ items = <<>>
        => deals = ExtractAll(batch, "finder", FetcherMinDiscount)

====
